---- MODULE Spec2Model ----
(***************************************************************************)
(* Model of src/script.js: the SimpleNotepad controller, its localStorage  *)
(* wrappers, the auto-save timer and the file export/import.               *)
(*                                                                         *)
(* Text (note content, timestamps, status labels, file text) is a sequence *)
(* whose elements are one-character strings or whole literal tokens of a   *)
(* template; theme names and storage keys are plain strings.  Japanese UI  *)
(* literals are written as ASCII glosses, the original is in the comment.  *)
(***************************************************************************)
EXTENDS Integers, Sequences, FiniteSets, TLC

VARIABLES
    this,          \* the SimpleNotepad instance and the DOM nodes it owns
    localStorage,  \* the key-value store: a function from the present keys
    bodyTheme,     \* document.body's data-theme attribute
    pickers,       \* file pickers opened by loadNote and not yet answered
    readers        \* FileReader reads in flight

vars == <<this, localStorage, bodyTheme, pickers, readers>>

----------------------------------------------------------------------------
(* Bounds of the model *)

MaxLen == 1        \* longest note text
MaxClock == 1      \* clock readings of this session: 1..MaxClock
MaxPending == 1    \* file pickers plus file reads in flight

----------------------------------------------------------------------------
(* Constants of the program *)

THEME_STORAGE_KEY == "notepad_theme"
NOTEPAD_CONTENT_KEY == "notepad_content"
NOTEPAD_TIMESTAMP_KEY == "notepad_timestamp"

StorageKeys == {THEME_STORAGE_KEY, NOTEPAD_CONTENT_KEY, NOTEPAD_TIMESTAMP_KEY}

\* status labels (textContent of #saveStatus)
LabelUnsaved == <<"unsaved">>                   \* '未保存'
LabelNewNote == <<"new note">>                  \* '新規メモ'
LabelSaved == <<"saved">>                       \* '保存済み'
LabelFileLoaded == <<"file loaded">>            \* 'ファイル読み込み完了'
LabelCleared == <<"cleared">>                   \* 'クリア済み'
NoticeSaveBlocked == <<"local save blocked; file was downloaded">>
NoticeCannotLoad == <<"cannot load stored note">>
NoticeAutoSaveFailed == <<"auto-save failed">>

\* `保存済み (${timestamp})`
LabelSavedAt(timestamp) == <<"saved", " ", "(">> \o timestamp \o <<")">>

DegradedNotices == {NoticeSaveBlocked, NoticeCannotLoad, NoticeAutoSaveFailed}

\* console.warn messages
WarnThemeWrite == "cannot save theme"
WarnThemeRead == "cannot read theme"
WarnContentWrite == "cannot save content"
WarnTimestampWrite == "cannot save timestamp"
WarnContentRead == "cannot read content"
WarnTimestampRead == "cannot read timestamp"
WarnAutoContent == "auto-save: cannot save content"
WarnAutoTimestamp == "auto-save: cannot save timestamp"

----------------------------------------------------------------------------
(* Input domains *)

\* the characters of a text: a letter, and U+FEFF (ZERO WIDTH NO-BREAK SPACE),
\* which is white space to String.prototype.trim and, at the start of a file,
\* the byte order mark
ZWNBSP == "U+FEFF"
Chars == {"a", ZWNBSP}
Whitespace == {ZWNBSP}

RECURSIVE TextsOfLen(_)
TextsOfLen(n) ==
    IF n = 0 THEN {<<>>}
    ELSE {<<c>> \o t : c \in Chars, t \in TextsOfLen(n - 1)}

Texts == UNION {TextsOfLen(n) : n \in 0..MaxLen}

Clock == 1..MaxClock

\* what a localStorage call can do: return, or throw
Returns == "returns"
Throws == {"DOMException", "TypeError"}
CallOutcomes == {Returns} \cup Throws

\* what a call does in a step.  The wrappers return the same for both errors
\* (script.js:14-17, 26-29) and only the console shows which was thrown, so
\* the successor of a step is the same for both and the steps draw one.
StepOutcomes == {Returns, "DOMException"}

----------------------------------------------------------------------------
(* Pure helpers *)

\* String.prototype.trim
RECURSIVE trimStart(_)
trimStart(s) ==
    IF s # <<>> /\ Head(s) \in Whitespace THEN trimStart(Tail(s)) ELSE s

RECURSIVE trimEnd(_)
trimEnd(s) ==
    IF s # <<>> /\ s[Len(s)] \in Whitespace
    THEN trimEnd(SubSeq(s, 1, Len(s) - 1))
    ELSE s

trim(s) == trimEnd(trimStart(s))

\* Date.prototype.toLocaleString('ja-JP') of clock reading t
toLocaleString(t) == <<"D", ToString(t)>>

BOM == <<239, 187, 191>>

\* UTF-8 bytes of one character
Utf8Of(c) == IF c = "a" THEN <<97>> ELSE BOM

\* new Blob([content], {type: 'text/plain;charset=utf-8'})
RECURSIVE Utf8Encode(_)
Utf8Encode(s) ==
    IF s = <<>> THEN <<>> ELSE Utf8Of(Head(s)) \o Utf8Encode(Tail(s))

RECURSIVE Utf8DecodeBody(_)
Utf8DecodeBody(b) ==
    IF b = <<>> THEN <<>>
    ELSE IF Head(b) = 97 THEN <<"a">> \o Utf8DecodeBody(Tail(b))
    ELSE <<ZWNBSP>> \o Utf8DecodeBody(SubSeq(b, 4, Len(b)))

\* FileReader.readAsText: UTF-8 decode, a leading byte order mark is dropped
readAsText(b) ==
    IF Len(b) >= 3 /\ SubSeq(b, 1, 3) = BOM
    THEN Utf8DecodeBody(SubSeq(b, 4, Len(b)))
    ELSE Utf8DecodeBody(b)

\* the files the user can choose in the picker
Files == {Utf8Encode(t) : t \in Texts} \cup {BOM \o Utf8Encode(<<"a">>)}

----------------------------------------------------------------------------
(* Storage access layer *)

Put(ls, key, value) ==
    [k \in DOMAIN ls \cup {key} |-> IF k = key THEN value ELSE ls[k]]

isStorageAccessError(error) == error = "DOMException"

\* the result carries the store as the call left it
safeSetItem(ls, key, value, outcome) ==
    IF outcome = Returns
    THEN [success |-> TRUE, error |-> "none", ls |-> Put(ls, key, value)]
    ELSE IF isStorageAccessError(outcome)
         THEN [success |-> FALSE, error |-> outcome, ls |-> ls]
         ELSE [success |-> FALSE, error |-> outcome, ls |-> ls]

\* mutant: an absent key is reported as a failure
safeGetItemAbsentFails(ls, key, fallback, outcome) ==
    IF outcome = Returns /\ key \in DOMAIN ls
    THEN [success |-> TRUE, error |-> "none", value |-> ls[key]]
    ELSE [success |-> FALSE, error |-> outcome, value |-> fallback]

\* mutant: the fallback replaces every falsy value, the empty string too
safeGetItemFalsy(ls, key, fallback, outcome) ==
    IF outcome = Returns
    THEN [success |-> TRUE, error |-> "none",
          value |-> IF key \in DOMAIN ls /\ ls[key] # <<>> THEN ls[key] ELSE fallback]
    ELSE [success |-> FALSE, error |-> outcome, value |-> fallback]

safeGetItem(ls, key, fallback, outcome) ==
    IF outcome = Returns
    THEN [success |-> TRUE, error |-> "none",
          value |-> IF key \in DOMAIN ls THEN ls[key] ELSE fallback]
    ELSE IF isStorageAccessError(outcome)
         THEN [success |-> FALSE, error |-> outcome, value |-> fallback]
         ELSE [success |-> FALSE, error |-> outcome, value |-> fallback]

\* console: the warnings logged so far by the running handler
logStorageFailure(console, message, result) ==
    IF ~result.success
    THEN Append(console, [message |-> message, error |-> result.error])
    ELSE console

\* one localStorage call as the handler's record keeps it
Call(fn, key, result) == [fn |-> fn, key |-> key, success |-> result.success]

----------------------------------------------------------------------------
(* Theme persistence *)

writeStoredTheme(ls, theme, outcome) ==
    LET result == safeSetItem(ls, THEME_STORAGE_KEY, theme, outcome)
    IN [success |-> result.success,
        ls |-> result.ls,
        calls |-> <<Call("setItem", THEME_STORAGE_KEY, result)>>,
        console |-> logStorageFailure(<<>>, WarnThemeWrite, result)]

readStoredTheme(ls, defaultTheme, outcome) ==
    LET result == safeGetItem(ls, THEME_STORAGE_KEY, defaultTheme, outcome)
    IN [value |-> result.value,
        calls |-> <<Call("getItem", THEME_STORAGE_KEY, result)>>,
        console |-> logStorageFailure(<<>>, WarnThemeRead, result)]

----------------------------------------------------------------------------
(* SimpleNotepad: methods as functions of the instance *)

\* `${count}文字`
updateCharCount(self) ==
    [self EXCEPT !.charCount = <<ToString(Len(self.notepad)), "chars">>]

updateSaveStatus(self, message, className) ==
    [self EXCEPT !.saveStatus = [textContent |-> message, className |-> className]]

\* 'ライトテーマ' when dark, 'ダークテーマ' otherwise
updateThemeToggleLabel(self, theme) ==
    LET isDark == theme = "dark"
    IN [self EXCEPT !.themeToggle =
            [textContent |-> IF isDark THEN "to light theme" ELSE "to dark theme",
             ariaPressed |-> isDark]]

\* mutant: the force option is ignored
notifyStorageIssueUnforced(self, message, force) ==
    LET shown == IF ~self.storageWarningIssued
                 THEN updateSaveStatus(self, message, "unsaved")
                 ELSE self
    IN [shown EXCEPT !.storageWarningIssued = TRUE]

\* mutant: the latch does not hold the message back
notifyStorageIssueAlways(self, message, force) ==
    [updateSaveStatus(self, message, "unsaved") EXCEPT !.storageWarningIssued = TRUE]

\* mutant: the latch is not set
notifyStorageIssueNoLatch(self, message, force) ==
    IF ~self.storageWarningIssued \/ force
    THEN updateSaveStatus(self, message, "unsaved")
    ELSE self

notifyStorageIssue(self, message, force) ==
    LET shown == IF ~self.storageWarningIssued \/ force
                 THEN updateSaveStatus(self, message, "unsaved")
                 ELSE self
    IN [shown EXCEPT !.storageWarningIssued = TRUE]

\* mutant: the latch is left as it is
clearStorageNoticeKept(self) == self

clearStorageNotice(self) == [self EXCEPT !.storageWarningIssued = FALSE]

\* the theme initTheme applies: the stored one, else the page's, else 'light'
initTheme(ls, pageTheme, outcome) ==
    LET defaultTheme == IF pageTheme # "" THEN pageTheme ELSE "light"
    IN readStoredTheme(ls, defaultTheme, outcome)

\* the theme toggleTheme switches to
nextTheme(attr) ==
    LET currentTheme == IF attr = "dark" THEN "dark" ELSE "light"
    IN IF currentTheme = "light" THEN "dark" ELSE "light"

\* mutant: the new theme is displayed but not persisted
toggleThemeNotPersisted(self, ls, attr, outcome) ==
    [this |-> updateThemeToggleLabel(self, nextTheme(attr)),
     bodyTheme |-> nextTheme(attr),
     ls |-> ls,
     calls |-> <<>>,
     console |-> <<>>]

toggleTheme(self, ls, attr, outcome) ==
    LET written == writeStoredTheme(ls, nextTheme(attr), outcome)
    IN [this |-> updateThemeToggleLabel(self, nextTheme(attr)),
        bodyTheme |-> nextTheme(attr),
        ls |-> written.ls,
        calls |-> written.calls,
        console |-> written.console]

\* mutant: the answer to confirm() is not looked at
newNoteUnconfirmed(self, confirmed) ==
    IF trim(self.notepad) # <<>>
    THEN [this |-> updateSaveStatus(
                       updateCharCount([self EXCEPT !.notepad = <<>>]),
                       LabelNewNote, "unsaved"),
          dialogs |-> <<confirmed>>]
    ELSE [this |-> self, dialogs |-> <<>>]

\* confirmed: the answer the user gives if confirm() is shown
newNote(self, confirmed) ==
    IF trim(self.notepad) # <<>>
    THEN [this |-> IF confirmed
                   THEN updateSaveStatus(
                            updateCharCount([self EXCEPT !.notepad = <<>>]),
                            LabelNewNote, "unsaved")
                   ELSE self,
          dialogs |-> <<confirmed>>]
    ELSE [this |-> self, dialogs |-> <<>>]

clearNote(self, confirmed) ==
    [this |-> IF confirmed
              THEN updateSaveStatus(
                       updateCharCount([self EXCEPT !.notepad = <<>>]),
                       LabelCleared, "saved")
              ELSE self,
     dialogs |-> <<confirmed>>]

\* the file handed to the browser's download
downloadAsFile(content) ==
    [type |-> "text/plain;charset=utf-8", bytes |-> Utf8Encode(content)]

\* mutant: the timestamp is written only after the content was
saveNoteTransactional(self, ls, now, oContent, oTimestamp) ==
    LET content == self.notepad
        timestamp == toLocaleString(now)
        contentResult == safeSetItem(ls, NOTEPAD_CONTENT_KEY, content, oContent)
        timestampResult ==
            IF contentResult.success
            THEN safeSetItem(contentResult.ls, NOTEPAD_TIMESTAMP_KEY, timestamp, oTimestamp)
            ELSE [success |-> FALSE, error |-> contentResult.error, ls |-> ls]
    IN [this |-> IF contentResult.success /\ timestampResult.success
                 THEN updateSaveStatus(clearStorageNotice(self),
                                       LabelSavedAt(timestamp), "saved")
                 ELSE notifyStorageIssue(self, NoticeSaveBlocked, TRUE),
        ls |-> timestampResult.ls,
        calls |-> <<Call("setItem", NOTEPAD_CONTENT_KEY, contentResult),
                    Call("setItem", NOTEPAD_TIMESTAMP_KEY, timestampResult)>>,
        console |-> logStorageFailure(
                        logStorageFailure(<<>>, WarnContentWrite, contentResult),
                        WarnTimestampWrite, timestampResult),
        downloads |-> <<downloadAsFile(content)>>]

saveNote(self, ls, now, oContent, oTimestamp) ==
    LET content == self.notepad
        timestamp == toLocaleString(now)
        contentResult == safeSetItem(ls, NOTEPAD_CONTENT_KEY, content, oContent)
        timestampResult ==
            safeSetItem(contentResult.ls, NOTEPAD_TIMESTAMP_KEY, timestamp, oTimestamp)
    IN [this |-> IF contentResult.success /\ timestampResult.success
                 THEN updateSaveStatus(clearStorageNotice(self),
                                       LabelSavedAt(timestamp), "saved")
                 ELSE notifyStorageIssue(self, NoticeSaveBlocked, TRUE),
        ls |-> timestampResult.ls,
        calls |-> <<Call("setItem", NOTEPAD_CONTENT_KEY, contentResult),
                    Call("setItem", NOTEPAD_TIMESTAMP_KEY, timestampResult)>>,
        console |-> logStorageFailure(
                        logStorageFailure(<<>>, WarnContentWrite, contentResult),
                        WarnTimestampWrite, timestampResult),
        downloads |-> <<downloadAsFile(content)>>]

autoSave(self, ls, now, oContent, oTimestamp) ==
    LET content == self.notepad
        timestamp == toLocaleString(now)
        contentResult == safeSetItem(ls, NOTEPAD_CONTENT_KEY, content, oContent)
        timestampResult ==
            safeSetItem(contentResult.ls, NOTEPAD_TIMESTAMP_KEY, timestamp, oTimestamp)
    IN [this |-> IF ~contentResult.success \/ ~timestampResult.success
                 THEN notifyStorageIssue(self, NoticeAutoSaveFailed, FALSE)
                 ELSE clearStorageNotice(self),
        ls |-> timestampResult.ls,
        calls |-> <<Call("setItem", NOTEPAD_CONTENT_KEY, contentResult),
                    Call("setItem", NOTEPAD_TIMESTAMP_KEY, timestampResult)>>,
        console |-> logStorageFailure(
                        logStorageFailure(<<>>, WarnAutoContent, contentResult),
                        WarnAutoTimestamp, timestampResult),
        downloads |-> <<>>]

loadFromStorage(self, ls, oContent, oTimestamp) ==
    LET contentResult == safeGetItem(ls, NOTEPAD_CONTENT_KEY, <<>>, oContent)
        timestampResult == safeGetItem(ls, NOTEPAD_TIMESTAMP_KEY, <<>>, oTimestamp)
        contentCall == <<Call("getItem", NOTEPAD_CONTENT_KEY, contentResult)>>
        timestampCall == <<Call("getItem", NOTEPAD_TIMESTAMP_KEY, timestampResult)>>
        restored == [self EXCEPT !.notepad = contentResult.value]
    IN IF ~contentResult.success
       THEN [this |-> notifyStorageIssue(self, NoticeCannotLoad, TRUE),
             calls |-> contentCall,
             console |-> logStorageFailure(<<>>, WarnContentRead, contentResult)]
       ELSE IF contentResult.value # <<>>
       THEN [this |-> IF timestampResult.success /\ timestampResult.value # <<>>
                      THEN updateSaveStatus(clearStorageNotice(restored),
                                            LabelSavedAt(timestampResult.value), "saved")
                      ELSE updateSaveStatus(clearStorageNotice(restored),
                                            LabelSaved, "saved"),
             calls |-> contentCall \o timestampCall,
             console |-> logStorageFailure(<<>>, WarnTimestampRead, timestampResult)]
       ELSE [this |-> updateSaveStatus(clearStorageNotice(self), LabelSaved, "saved"),
             calls |-> contentCall,
             console |-> <<>>]

\* the instance before the constructor body runs, on the page as served
NewInstance ==
    [notepad |-> <<>>,
     charCount |-> <<>>,
     saveStatus |-> [textContent |-> <<>>, className |-> ""],
     themeToggle |-> [textContent |-> "", ariaPressed |-> FALSE],
     storageWarningIssued |-> FALSE]

\* new SimpleNotepad(): initTheme, initEventListeners, loadFromStorage, updateCharCount
constructor(ls, pageTheme, oTheme, oContent, oTimestamp) ==
    LET theme == initTheme(ls, pageTheme, oTheme)
        themed == updateThemeToggleLabel(NewInstance, theme.value)
        loaded == loadFromStorage(themed, ls, oContent, oTimestamp)
    IN [this |-> updateCharCount(loaded.this),
        bodyTheme |-> theme.value,
        calls |-> theme.calls \o loaded.calls,
        console |-> theme.console \o loaded.console]

\* the textarea's input event: the user has changed the text to `text`
onInput(self, text) ==
    updateSaveStatus(updateCharCount([self EXCEPT !.notepad = text]),
                     LabelUnsaved, "unsaved")

\* mutant: the file's text is added to what was typed since the pick
onReaderLoadAppends(self, bytes) ==
    updateSaveStatus(
        updateCharCount([self EXCEPT !.notepad = self.notepad \o readAsText(bytes)]),
        LabelFileLoaded, "saved")

\* reader.onload: the file's text replaces the note
onReaderLoad(self, bytes) ==
    updateSaveStatus(updateCharCount([self EXCEPT !.notepad = readAsText(bytes)]),
                     LabelFileLoaded, "saved")

----------------------------------------------------------------------------
(* The environment the page starts in *)

\* values a store left by an earlier session (or another page of the origin) holds
StoredThemes == {"light", "dark", "sepia"}
\* reading 0 is a time before this session
StoredTimestamps == {toLocaleString(0)}

StoresOver(S) ==
    {[k \in S |-> IF k = THEME_STORAGE_KEY THEN th
                  ELSE IF k = NOTEPAD_CONTENT_KEY THEN c ELSE ts] :
        th \in StoredThemes, c \in Texts, ts \in StoredTimestamps}

Stores == UNION {StoresOver(S) : S \in SUBSET StorageKeys}

\* the data-theme attribute of <body> as served; "" is no attribute
PageThemes == {"", "dark"}

\* the outcomes to consider for the timestamp read of loadFromStorage, which
\* happens only after a content read that returned a non-empty text
TimestampReadOutcomes(ls, oContent) ==
    IF safeGetItem(ls, NOTEPAD_CONTENT_KEY, <<>>, oContent).success
       /\ safeGetItem(ls, NOTEPAD_CONTENT_KEY, <<>>, oContent).value # <<>>
    THEN StepOutcomes
    ELSE {Returns}

----------------------------------------------------------------------------
(* Handlers as steps: each takes what the environment decides as parameters *)

\* DOMContentLoaded: new SimpleNotepad() on a fresh document over store ls
Constructed(ls, pageTheme, oTheme, oContent, oTimestamp) ==
    LET r == constructor(ls, pageTheme, oTheme, oContent, oTimestamp)
    IN /\ this = r.this
       /\ bodyTheme = r.bodyTheme
       /\ pickers = 0
       /\ readers = 0

ReloadStep(pageTheme, oTheme, oContent, oTimestamp) ==
    LET r == constructor(localStorage, pageTheme, oTheme, oContent, oTimestamp)
    IN /\ this' = r.this
       /\ bodyTheme' = r.bodyTheme
       /\ pickers' = 0
       /\ readers' = 0
       /\ UNCHANGED localStorage

InputStep(text) ==
    /\ text # this.notepad
    /\ this' = onInput(this, text)
    /\ UNCHANGED <<localStorage, bodyTheme, pickers, readers>>

NewStep(confirmed) ==
    /\ this' = newNote(this, confirmed).this
    /\ UNCHANGED <<localStorage, bodyTheme, pickers, readers>>

SaveStep(now, oContent, oTimestamp) ==
    LET r == saveNote(this, localStorage, now, oContent, oTimestamp)
    IN /\ this' = r.this
       /\ localStorage' = r.ls
       /\ UNCHANGED <<bodyTheme, pickers, readers>>

ReaderLoadStep(file) ==
    /\ readers > 0
    /\ this' = onReaderLoad(this, file)
    /\ readers' = readers - 1
    /\ UNCHANGED <<localStorage, bodyTheme, pickers>>

\* mutant: a confirmed clear removes the stored note too
ClearStepErasing(confirmed) ==
    /\ this' = clearNote(this, confirmed).this
    /\ localStorage' =
         IF confirmed
         THEN [k \in DOMAIN localStorage \ {NOTEPAD_CONTENT_KEY, NOTEPAD_TIMESTAMP_KEY}
                 |-> localStorage[k]]
         ELSE localStorage
    /\ UNCHANGED <<bodyTheme, pickers, readers>>

ClearStep(confirmed) ==
    /\ this' = clearNote(this, confirmed).this
    /\ UNCHANGED <<localStorage, bodyTheme, pickers, readers>>

ThemeStep(outcome) ==
    LET r == toggleTheme(this, localStorage, bodyTheme, outcome)
    IN /\ this' = r.this
       /\ localStorage' = r.ls
       /\ bodyTheme' = r.bodyTheme
       /\ UNCHANGED <<pickers, readers>>

\* mutant: the callback never saves
timerCallbackIdle(self, ls, now, oContent, oTimestamp) ==
    [this |-> self, ls |-> ls, calls |-> <<>>, console |-> <<>>, downloads |-> <<>>]

\* mutant: the callback saves a blank note too
timerCallbackAlways(self, ls, now, oContent, oTimestamp) ==
    autoSave(self, ls, now, oContent, oTimestamp)

\* the setInterval callback: autoSave unless the note is blank
timerCallback(self, ls, now, oContent, oTimestamp) ==
    IF trim(self.notepad) # <<>>
    THEN autoSave(self, ls, now, oContent, oTimestamp)
    ELSE [this |-> self, ls |-> ls, calls |-> <<>>, console |-> <<>>, downloads |-> <<>>]

TimerStep(now, oContent, oTimestamp) ==
    LET r == timerCallback(this, localStorage, now, oContent, oTimestamp)
    IN /\ this' = r.this
       /\ localStorage' = r.ls
       /\ UNCHANGED <<bodyTheme, pickers, readers>>

----------------------------------------------------------------------------
(* Specification *)

\* the page has loaded over some store and the constructor has run
Init ==
    \E ls \in Stores, pageTheme \in PageThemes,
       oTheme \in StepOutcomes, oContent \in StepOutcomes :
      \E oTimestamp \in TimestampReadOutcomes(ls, oContent) :
        /\ localStorage = ls
        /\ Constructed(ls, pageTheme, oTheme, oContent, oTimestamp)

\* the page is loaded again: a new document, a new instance, the same store
DOMContentLoaded ==
    \E pageTheme \in PageThemes,
       oTheme \in StepOutcomes, oContent \in StepOutcomes :
      \E oTimestamp \in TimestampReadOutcomes(localStorage, oContent) :
        ReloadStep(pageTheme, oTheme, oContent, oTimestamp)

Input == \E text \in Texts : InputStep(text)

ClickNew == \E confirmed \in BOOLEAN : NewStep(confirmed)

\* the save button, or Ctrl+S
ClickSave ==
    \E now \in Clock, oContent \in StepOutcomes, oTimestamp \in StepOutcomes :
        SaveStep(now, oContent, oTimestamp)

\* loadNote: a file picker opens
ClickLoad ==
    /\ pickers + readers < MaxPending
    /\ pickers' = pickers + 1
    /\ UNCHANGED <<this, localStorage, bodyTheme, readers>>

\* input.onchange: the user chose a file, its read starts
PickFile ==
    /\ pickers > 0
    /\ pickers' = pickers - 1
    /\ readers' = readers + 1
    /\ UNCHANGED <<this, localStorage, bodyTheme>>

\* the user dismissed the picker: no event reaches the page
CancelPicker ==
    /\ pickers > 0
    /\ pickers' = pickers - 1
    /\ UNCHANGED <<this, localStorage, bodyTheme, readers>>

\* reader.onload of one of the reads in flight; file is the bytes it has read
ReaderLoad == \E file \in Files : ReaderLoadStep(file)

ClickClear == \E confirmed \in BOOLEAN : ClearStep(confirmed)

ClickTheme == \E outcome \in StepOutcomes : ThemeStep(outcome)

TimerTick ==
    \E now \in Clock, oContent \in StepOutcomes, oTimestamp \in StepOutcomes :
        TimerStep(now, oContent, oTimestamp)

Next ==
    \/ DOMContentLoaded
    \/ Input
    \/ ClickNew
    \/ ClickSave
    \/ ClickLoad
    \/ PickFile
    \/ CancelPicker
    \/ ReaderLoad
    \/ ClickClear
    \/ ClickTheme
    \/ TimerTick

Spec == Init /\ [][Next]_vars

\* a timer tick while the store accepts both writes
TimerAccepted == \E now \in Clock : TimerStep(now, Returns, Returns)

\* the interval timer keeps firing: a tick that the store accepts and that
\* would change something does not stay possible for ever without happening
FairSpec == Init /\ [][Next]_vars /\ WF_vars(TimerAccepted)

----------------------------------------------------------------------------
(* What the claims read *)

Latch == this.storageWarningIssued
StatusText == this.saveStatus.textContent
StatusClass == this.saveStatus.className

Stored(key) == IF key \in DOMAIN localStorage THEN <<localStorage[key]>> ELSE <<>>

IsDegradedNotice(text) == text \in DegradedNotices

\* a label of the form `保存済み (${timestamp})`
IsSavedAt(text) == Len(text) > 3 /\ SubSeq(text, 1, 3) = <<"saved", " ", "(">>

SomeWriteThrows(oContent, oTimestamp) == oContent \in Throws \/ oTimestamp \in Throws

----------------------------------------------------------------------------
(* C1 *)

\* C1: while the storage-degraded latch is set, a content edit, newNote, clear or
\* an auto-save tick never replaces a displayed degraded notice by another
\* message: after such a step the status still shows a degraded notice.
C1_NoticeKeptWhileDegraded ==
    [][(Latch /\ IsDegradedNotice(StatusText)
        /\ (Input \/ ClickNew \/ ClickClear \/ TimerTick))
       => IsDegradedNotice(StatusText')]_vars

----------------------------------------------------------------------------
(* C2 *)

\* C2: in every reachable state (latch set or not), a save() whose two writes
\* both succeed ends with the latch false, style 'saved', the label
\* 'saved at t' where t is the timestamp string now stored under the timestamp
\* key (the one formatted from the clock reading save() took), and the stored
\* content equal to the editor content save() started with.
C2_SaveSuccess ==
    \A now \in Clock :
        LET r == saveNote(this, localStorage, now, Returns, Returns)
        IN /\ ~r.this.storageWarningIssued
           /\ r.this.saveStatus.className = "saved"
           /\ NOTEPAD_TIMESTAMP_KEY \in DOMAIN r.ls
           /\ r.ls[NOTEPAD_TIMESTAMP_KEY] = toLocaleString(now)
           /\ r.this.saveStatus.textContent = LabelSavedAt(r.ls[NOTEPAD_TIMESTAMP_KEY])
           /\ NOTEPAD_CONTENT_KEY \in DOMAIN r.ls
           /\ r.ls[NOTEPAD_CONTENT_KEY] = this.notepad
           /\ r.this.notepad = this.notepad

\* a state a successful save() of a non-empty note in this session leaves
C2_Witness ==
    /\ ~Latch
    /\ this.notepad # <<>>
    /\ Stored(NOTEPAD_CONTENT_KEY) = <<this.notepad>>
    /\ Stored(NOTEPAD_TIMESTAMP_KEY) = <<toLocaleString(1)>>
    /\ StatusText = LabelSavedAt(toLocaleString(1))
    /\ StatusClass = "saved"

----------------------------------------------------------------------------
(* C3 *)

\* C3: in every reachable state, whatever the latch and the displayed message
\* are, a save() in which the content write or the timestamp write throws ends
\* with the latch set and the 'local save blocked; file was downloaded' notice
\* shown with style 'unsaved'.
C3_SaveFailure ==
    \A now \in Clock, oContent \in CallOutcomes, oTimestamp \in CallOutcomes :
        SomeWriteThrows(oContent, oTimestamp)
        => LET r == saveNote(this, localStorage, now, oContent, oTimestamp)
           IN /\ r.this.storageWarningIssued
              /\ r.this.saveStatus.textContent = NoticeSaveBlocked
              /\ r.this.saveStatus.className = "unsaved"

\* the save-blocked notice is up with the latch set
C3_Witness ==
    /\ Latch
    /\ StatusText = NoticeSaveBlocked
    /\ StatusClass = "unsaved"

----------------------------------------------------------------------------
(* C4 *)

StoredIn(ls, key) == IF key \in DOMAIN ls THEN <<ls[key]>> ELSE <<>>

\* C4: in every reachable state and for every combination of the two write
\* outcomes, save() calls setItem for the content and then for the timestamp
\* (the timestamp write is attempted, and takes effect, also when the content
\* write threw; each write changes its own key only when it returns), and
\* hands exactly one file to the download, holding the content save() started
\* with.
C4_SaveWritesBothAndExports ==
    \A now \in Clock, oContent \in CallOutcomes, oTimestamp \in CallOutcomes :
        LET r == saveNote(this, localStorage, now, oContent, oTimestamp)
        IN /\ r.calls =
                <<[fn |-> "setItem", key |-> NOTEPAD_CONTENT_KEY,
                   success |-> oContent = Returns],
                  [fn |-> "setItem", key |-> NOTEPAD_TIMESTAMP_KEY,
                   success |-> oTimestamp = Returns]>>
           /\ StoredIn(r.ls, NOTEPAD_CONTENT_KEY) =
                IF oContent = Returns THEN <<this.notepad>>
                ELSE Stored(NOTEPAD_CONTENT_KEY)
           /\ StoredIn(r.ls, NOTEPAD_TIMESTAMP_KEY) =
                IF oTimestamp = Returns THEN <<toLocaleString(now)>>
                ELSE Stored(NOTEPAD_TIMESTAMP_KEY)
           /\ StoredIn(r.ls, THEME_STORAGE_KEY) = Stored(THEME_STORAGE_KEY)
           /\ Len(r.downloads) = 1
           /\ r.downloads[1].bytes = Utf8Encode(this.notepad)

\* after a save() whose content write threw and whose timestamp write returned:
\* no content was ever stored, this session's timestamp is, the notice is up
C4_Witness ==
    /\ NOTEPAD_CONTENT_KEY \notin DOMAIN localStorage
    /\ Stored(NOTEPAD_TIMESTAMP_KEY) = <<toLocaleString(1)>>
    /\ StatusText = NoticeSaveBlocked
    /\ this.notepad # <<>>

----------------------------------------------------------------------------
(* C5 *)

\* C5: whenever the state is the one the constructor leaves when every store
\* call throws (theme read, content read; the timestamp read is not reached),
\* the latch is set and the status shows the 'cannot load stored note' notice
\* with style 'unsaved', and the note is empty.
C5_InitAllReadsFail ==
    \A pageTheme \in PageThemes,
       oTheme \in Throws, oContent \in Throws, oTimestamp \in Throws :
        Constructed(localStorage, pageTheme, oTheme, oContent, oTimestamp)
        => /\ Latch
           /\ StatusText = NoticeCannotLoad
           /\ StatusClass = "unsaved"
           /\ this.notepad = <<>>

\* the constructor has run over a store holding a note, every call threw
C5_Witness ==
    /\ \E pageTheme \in PageThemes, oTheme \in Throws, oContent \in Throws :
           Constructed(localStorage, pageTheme, oTheme, oContent, oContent)
    /\ Stored(NOTEPAD_CONTENT_KEY) = <<<<"a">>>>
    /\ Stored(NOTEPAD_TIMESTAMP_KEY) # <<>>
    /\ Stored(THEME_STORAGE_KEY) = <<"dark">>

----------------------------------------------------------------------------
(* C6 *)

StoredContentNonEmpty == Stored(NOTEPAD_CONTENT_KEY) \notin {<<>>, <<<<>>>>}
StoredTimestampNonEmpty == Stored(NOTEPAD_TIMESTAMP_KEY) \notin {<<>>, <<<<>>>>}

\* the timestamp read is reached only after a content read that returned text
TimestampReadThrows(oContent, oTimestamp) ==
    oContent = Returns /\ StoredContentNonEmpty /\ oTimestamp \in Throws

\* C6: whenever the state is the one the constructor leaves for some read
\* outcomes: (i) if the content read threw, the latch is set, the cannot-load
\* notice is shown and the note is empty; (ii) 'saved at {timestamp}' is shown
\* exactly when the content read returned a non-empty text and the timestamp
\* read returned a non-empty timestamp, and then the latch is clear; (iii) in
\* the other cases without a read error the latch is clear and the generic
\* 'saved' is shown; (iv) the latch is clear with a 'saved' status only if no
\* read (content or timestamp) threw.
C6_InitOutcome ==
    \A pageTheme \in PageThemes, oTheme \in CallOutcomes,
       oContent \in CallOutcomes, oTimestamp \in CallOutcomes :
        Constructed(localStorage, pageTheme, oTheme, oContent, oTimestamp)
        => LET readError == oContent \in Throws
                            \/ TimestampReadThrows(oContent, oTimestamp)
               savedAt == /\ oContent = Returns
                          /\ StoredContentNonEmpty
                          /\ oTimestamp = Returns
                          /\ StoredTimestampNonEmpty
           IN /\ oContent \in Throws
                 => Latch /\ StatusText = NoticeCannotLoad /\ this.notepad = <<>>
              /\ IsSavedAt(StatusText) <=> savedAt
              /\ savedAt
                 => /\ ~Latch
                    /\ StatusText = LabelSavedAt(localStorage[NOTEPAD_TIMESTAMP_KEY])
              /\ (~readError /\ ~savedAt)
                 => ~Latch /\ StatusText = LabelSaved /\ StatusClass = "saved"
              /\ (~Latch /\ StatusClass = "saved") => ~readError

----------------------------------------------------------------------------
(* C7 *)

\* C7: in every reachable state whose note is empty or whitespace-only, the
\* timer callback makes no localStorage call and leaves the store (content,
\* timestamp) and the instance (status label, style, latch) as they are; and
\* in every reachable state, blank or not, it hands no file to the download.
C7_BlankTickDoesNothing ==
    \A now \in Clock, oContent \in CallOutcomes, oTimestamp \in CallOutcomes :
        LET r == timerCallback(this, localStorage, now, oContent, oTimestamp)
        IN /\ trim(this.notepad) = <<>>
              => /\ r.calls = <<>>
                 /\ r.ls = localStorage
                 /\ r.this = this
           /\ r.downloads = <<>>

\* a whitespace-only note over a stored note, with the latch set
C7_Witness ==
    /\ this.notepad # <<>>
    /\ trim(this.notepad) = <<>>
    /\ Latch
    /\ StoredContentNonEmpty
    /\ Stored(NOTEPAD_CONTENT_KEY) # <<this.notepad>>

----------------------------------------------------------------------------
(* C8 *)

NotifyContract(message, force) ==
    LET r == notifyStorageIssue(this, message, force)
    IN /\ r.storageWarningIssued
       /\ r.saveStatus = IF Latch /\ ~force
                         THEN this.saveStatus
                         ELSE [textContent |-> message, className |-> "unsaved"]
       /\ r.notepad = this.notepad
       /\ r.charCount = this.charCount
       /\ r.themeToggle = this.themeToggle

\* what a failing autoSave (the caller that does not force) leaves
FailedAutoSaveContract(r) ==
    /\ r.this.storageWarningIssued
    /\ r.this.saveStatus = IF Latch
                           THEN this.saveStatus
                           ELSE [textContent |-> NoticeAutoSaveFailed,
                                 className |-> "unsaved"]

\* C8 as stated: notifyStorageIssue keeps the displayed message when the latch
\* is set and the call is not forced, and otherwise shows `message` with style
\* 'unsaved'; it always leaves the latch set.  A failing autoSave leaves the
\* latch set and posts its message only if the latch was unset, and a forced
\* call after it (a failing save) always changes the displayed text.
C8_ForcedAlwaysChangesText ==
    /\ \A message \in DegradedNotices, force \in BOOLEAN : NotifyContract(message, force)
    /\ \A now \in Clock, oContent \in CallOutcomes, oTimestamp \in CallOutcomes :
          (trim(this.notepad) # <<>> /\ SomeWriteThrows(oContent, oTimestamp))
          => LET r == timerCallback(this, localStorage, now, oContent, oTimestamp)
                 forced == saveNote(r.this, r.ls, now, oContent, oTimestamp)
             IN /\ FailedAutoSaveContract(r)
                /\ forced.this.saveStatus.textContent # r.this.saveStatus.textContent

\* C8 amended: the same, except that the forced call after a failing autoSave
\* always displays its own message with style 'unsaved'; that changes the
\* displayed text whenever the text is not already that message, in
\* particular whenever it is the auto-save notice.
C8_NotifyStorageIssue ==
    /\ \A message \in DegradedNotices, force \in BOOLEAN : NotifyContract(message, force)
    /\ \A now \in Clock, oContent \in CallOutcomes, oTimestamp \in CallOutcomes :
          (trim(this.notepad) # <<>> /\ SomeWriteThrows(oContent, oTimestamp))
          => LET r == timerCallback(this, localStorage, now, oContent, oTimestamp)
                 forced == saveNote(r.this, r.ls, now, oContent, oTimestamp)
             IN /\ FailedAutoSaveContract(r)
                /\ forced.this.storageWarningIssued
                /\ forced.this.saveStatus =
                     [textContent |-> NoticeSaveBlocked, className |-> "unsaved"]
                /\ r.this.saveStatus.textContent # NoticeSaveBlocked
                   => forced.this.saveStatus.textContent # r.this.saveStatus.textContent

\* a failing autoSave was the first to post: its notice is up, the latch is set
C8_Witness ==
    /\ Latch
    /\ StatusText = NoticeAutoSaveFailed
    /\ StatusClass = "unsaved"
    /\ trim(this.notepad) # <<>>

----------------------------------------------------------------------------
(* C9 *)

\* C9: a newNote() on a non-empty note whose confirmation is declined is no
\* step at all: the editor content, the status label and style, the latch and
\* the store are all as before.
C9_DeclinedNewNote ==
    [][(this.notepad # <<>> /\ NewStep(FALSE)) => UNCHANGED vars]_vars

\* a note with text, a stored note and the latch set: declining changes none
C9_Witness ==
    /\ trim(this.notepad) # <<>>
    /\ newNote(this, FALSE).dialogs = <<FALSE>>
    /\ Latch
    /\ StoredContentNonEmpty
    /\ StatusText = LabelUnsaved

----------------------------------------------------------------------------
(* C10 *)

----------------------------------------------------------------------------
(* C11 *)

\* the label and pressed-state the toggle shows for a displayed theme
ToggleShows(self, theme) ==
    self.themeToggle =
        [textContent |-> IF theme = "dark" THEN "to light theme" ELSE "to dark theme",
         ariaPressed |-> theme = "dark"]

\* C11 as stated: in every reachable state, after one toggleTheme() call,
\* whatever its theme write does, the value stored under the theme key is the
\* displayed theme and the toggle's label and pressed-state are those of that
\* theme.
C11_StoredThemeIsDisplayed ==
    \A outcome \in CallOutcomes :
        LET r == toggleTheme(this, localStorage, bodyTheme, outcome)
        IN /\ StoredIn(r.ls, THEME_STORAGE_KEY) = <<r.bodyTheme>>
           /\ ToggleShows(r.this, r.bodyTheme)

\* C11 amended: after one toggleTheme() call the displayed theme is 'dark' or
\* 'light' and the toggle's label and pressed-state are those of the displayed
\* theme; the value stored under the theme key is the displayed theme if the
\* theme write returned, and is what it was before the call if the write
\* threw.
C11_ToggleThemePersists ==
    \A outcome \in CallOutcomes :
        LET r == toggleTheme(this, localStorage, bodyTheme, outcome)
        IN /\ r.bodyTheme \in {"light", "dark"}
           /\ r.bodyTheme # bodyTheme
           /\ ToggleShows(r.this, r.bodyTheme)
           /\ StoredIn(r.ls, THEME_STORAGE_KEY) =
                IF outcome = Returns THEN <<r.bodyTheme>>
                ELSE Stored(THEME_STORAGE_KEY)

\* a toggle whose write threw, after a save of this session went through: the
\* page shows 'light', the store still holds 'dark'
C11_Witness ==
    /\ bodyTheme = "light"
    /\ ToggleShows(this, "light")
    /\ Stored(THEME_STORAGE_KEY) = <<"dark">>
    /\ IsSavedAt(StatusText)
    /\ Stored(NOTEPAD_TIMESTAMP_KEY) = <<toLocaleString(1)>>

----------------------------------------------------------------------------
(* C12 *)

\* a fallback that is none of the values written
SomeFallback == <<"f", "b">>

\* C12: in every reachable state (the store as any sequence of writes and
\* failed writes has left it), for every key k and value v, the empty string
\* included, a write of v under k that returns reports success, a read of k
\* right after it returns success with value v and not the fallback, and so
\* does a read of k after a further successful write to another key.
C12_ReadAfterWrite ==
    \A k \in StorageKeys, v \in Texts :
        LET w == safeSetItem(localStorage, k, v, Returns)
            r == safeGetItem(w.ls, k, SomeFallback, Returns)
        IN /\ w.success
           /\ r.success
           /\ r.value = v
           /\ \A k2 \in StorageKeys \ {k}, v2 \in {<<>>, <<"a">>} :
                 LET w2 == safeSetItem(w.ls, k2, v2, Returns)
                     r2 == safeGetItem(w2.ls, k, SomeFallback, Returns)
                 IN w2.success /\ r2.success /\ r2.value = v

\* a save of this session has written the empty string as the content, and a
\* read of the content returns it, not the fallback
C12_Witness ==
    /\ this.notepad = <<>>
    /\ StatusText = LabelSavedAt(toLocaleString(1))
    /\ Stored(NOTEPAD_CONTENT_KEY) = <<<<>>>>
    /\ safeGetItem(localStorage, NOTEPAD_CONTENT_KEY, SomeFallback, Returns).value = <<>>

----------------------------------------------------------------------------
(* C13 *)

\* the warnings a handler logs for its calls: one per failed call, in order
RECURSIVE WarningsFor(_, _)
WarningsFor(messages, outcomes) ==
    IF messages = <<>> THEN <<>>
    ELSE (IF Head(outcomes) \in Throws
          THEN <<[message |-> Head(messages), error |-> Head(outcomes)]>>
          ELSE <<>>)
         \o WarningsFor(Tail(messages), Tail(outcomes))

\* C13: in every reachable state, for every key and every way a store call
\* can throw: a throwing write yields success=false with the thrown error and
\* leaves the store as it was; a read of an absent key that returns yields
\* success=true with the fallback; a throwing read yields success=false with
\* the fallback and the thrown error.  Every handler completes with a result
\* for every combination of outcomes, logs exactly one warning per failed
\* call, and the success flag a wrapper hands back (writeStoredTheme) is the
\* one of its call, logged or not; a toggleTheme whose write failed leaves
\* the note, the status and the latch as they were.
C13_FailuresAreOutcomes ==
    /\ \A k \in StorageKeys, v \in Texts, outcome \in Throws :
          LET w == safeSetItem(localStorage, k, v, outcome)
              r == safeGetItem(localStorage, k, SomeFallback, outcome)
          IN /\ ~w.success /\ w.error = outcome /\ w.ls = localStorage
             /\ ~r.success /\ r.error = outcome /\ r.value = SomeFallback
    /\ \A k \in StorageKeys \ DOMAIN localStorage :
          LET r == safeGetItem(localStorage, k, SomeFallback, Returns)
          IN r.success /\ r.value = SomeFallback
    /\ \A now \in Clock, oContent \in CallOutcomes, oTimestamp \in CallOutcomes :
          /\ saveNote(this, localStorage, now, oContent, oTimestamp).console
               = WarningsFor(<<WarnContentWrite, WarnTimestampWrite>>,
                             <<oContent, oTimestamp>>)
          /\ autoSave(this, localStorage, now, oContent, oTimestamp).console
               = WarningsFor(<<WarnAutoContent, WarnAutoTimestamp>>,
                             <<oContent, oTimestamp>>)
    /\ \A outcome \in CallOutcomes :
          LET written == writeStoredTheme(localStorage, nextTheme(bodyTheme), outcome)
              toggled == toggleTheme(this, localStorage, bodyTheme, outcome)
          IN /\ written.success = (outcome = Returns)
             /\ written.console = WarningsFor(<<WarnThemeWrite>>, <<outcome>>)
             /\ toggled.console = written.console
             /\ toggled.this.notepad = this.notepad
             /\ toggled.this.saveStatus = this.saveStatus
             /\ toggled.this.storageWarningIssued = Latch
    /\ \A oTheme \in Throws, oContent \in Throws :
          constructor(localStorage, "", oTheme, oContent, oContent).console
            = WarningsFor(<<WarnThemeRead, WarnContentRead>>, <<oTheme, oContent>>)

\* a save of a note whose two writes threw, over a store without a note: the
\* store is still without one, and the notice is up
C13_Witness ==
    /\ StatusText = NoticeSaveBlocked
    /\ Latch
    /\ this.notepad # <<>>
    /\ NOTEPAD_CONTENT_KEY \notin DOMAIN localStorage
    /\ NOTEPAD_TIMESTAMP_KEY \notin DOMAIN localStorage

----------------------------------------------------------------------------
(* C14 *)

\* C14: in every reachable state, whatever the content, the latch and the
\* outcomes of the two writes are, save() exports one file, and loading that
\* file back (the file is chosen, its read completes) leaves the editor with
\* exactly the content save() exported.
C14_ExportImportRoundTrip ==
    \A now \in Clock, oContent \in CallOutcomes, oTimestamp \in CallOutcomes :
        LET saved == saveNote(this, localStorage, now, oContent, oTimestamp)
        IN /\ Len(saved.downloads) = 1
           /\ onReaderLoad(saved.this, saved.downloads[1].bytes).notepad = this.notepad

----------------------------------------------------------------------------
(* C15 *)

\* C15: every operation that clears the latch sets a fresh status message in
\* the same step, so in every reachable state with the latch clear the status
\* line does not show a storage-degraded notice.
C15_NoNoticeWhenLatchClear == ~Latch => ~IsDegradedNotice(StatusText)

----------------------------------------------------------------------------
(* C16 *)

\* the handlers that are not to touch the latch leave it as it is, and a
\* toggleTheme whose write threw leaves the status too
LatchFrame ==
    /\ \A text \in Texts : onInput(this, text).storageWarningIssued = Latch
    /\ \A confirmed \in BOOLEAN :
          /\ newNote(this, confirmed).this.storageWarningIssued = Latch
          /\ clearNote(this, confirmed).this.storageWarningIssued = Latch
    /\ \A file \in Files : onReaderLoad(this, file).storageWarningIssued = Latch
    /\ \A outcome \in CallOutcomes :
          LET r == toggleTheme(this, localStorage, bodyTheme, outcome)
          IN /\ r.this.storageWarningIssued = Latch
             /\ outcome \in Throws => r.this.saveStatus = this.saveStatus

\* save and a tick on a non-blank note leave the latch set exactly when one of
\* their two writes threw; a tick on a blank note leaves it as it is
LatchAfterWrites ==
    \A now \in Clock, oContent \in CallOutcomes, oTimestamp \in CallOutcomes :
        LET saved == saveNote(this, localStorage, now, oContent, oTimestamp)
            ticked == timerCallback(this, localStorage, now, oContent, oTimestamp)
        IN /\ saved.this.storageWarningIssued = SomeWriteThrows(oContent, oTimestamp)
           /\ ticked.this.storageWarningIssued =
                IF trim(this.notepad) = <<>> THEN Latch
                ELSE SomeWriteThrows(oContent, oTimestamp)

\* the constructor leaves the latch set only if the content read threw, and
\* clear only if neither the content read nor the timestamp read threw
LatchAfterInit ==
    \A pageTheme \in PageThemes, oTheme \in CallOutcomes,
       oContent \in CallOutcomes, oTimestamp \in CallOutcomes :
        Constructed(localStorage, pageTheme, oTheme, oContent, oTimestamp)
        => /\ Latch => oContent \in Throws
           /\ ~Latch => /\ oContent = Returns
                        /\ ~TimestampReadThrows(oContent, oTimestamp)

\* C16: the latch changes only in a step of save, of the auto-save timer or of
\* the constructor (so not in a content edit, newNote, clear, a file pick, a
\* cancelled picker, a completed file read or toggleTheme); it is left false by
\* such an operation only if every storage call the operation made for the
\* note returned, and left true only after a call that threw; a toggleTheme
\* whose write threw leaves the status as well.  (The theme read of the
\* constructor is not counted among the calls that must return.)
C16_LatchWriteDiscipline ==
    /\ [](LatchFrame /\ LatchAfterWrites /\ LatchAfterInit)
    /\ [][Latch' # Latch => (ClickSave \/ TimerTick \/ DOMContentLoaded)]_vars

----------------------------------------------------------------------------
(* C17 *)

\* what a completed read of `file` leaves of the instance
FileLoaded(file) ==
    [this EXCEPT !.notepad = readAsText(file),
                 !.charCount = <<ToString(Len(readAsText(file))), "chars">>,
                 !.saveStatus = [textContent |-> LabelFileLoaded,
                                 className |-> "saved"]]

----------------------------------------------------------------------------
(* C18 *)

NonBlank == trim(this.notepad) # <<>>

\* save, and the timer callback on a non-blank note, call setItem once for the
\* content and once for the timestamp, whatever the calls do
EachWriteOnce ==
    \A now \in Clock, oContent \in CallOutcomes, oTimestamp \in CallOutcomes :
        LET writes == <<[fn |-> "setItem", key |-> NOTEPAD_CONTENT_KEY,
                         success |-> oContent = Returns],
                        [fn |-> "setItem", key |-> NOTEPAD_TIMESTAMP_KEY,
                         success |-> oTimestamp = Returns]>>
        IN /\ saveNote(this, localStorage, now, oContent, oTimestamp).calls = writes
           /\ NonBlank
              => timerCallback(this, localStorage, now, oContent, oTimestamp).calls
                   = writes

\* C18: a save or an auto-save attempts each of its two writes once, failed or
\* not; and when ticks that the store accepts are weakly fair, every state
\* with the latch set and a non-blank note is followed by a state where the
\* latch is clear and the stored content is the editor content, unless the
\* note becomes blank first.
C18_ImplicitRetry ==
    /\ []EachWriteOnce
    /\ (Latch /\ NonBlank)
         ~> ((~Latch /\ Stored(NOTEPAD_CONTENT_KEY) = <<this.notepad>>) \/ ~NonBlank)

\* an accepted tick has cleared the latch a failed save or tick had set: the
\* note is stored, the latch is clear, the notice of the failure is still up
C18_Witness ==
    /\ ~Latch
    /\ NonBlank
    /\ Stored(NOTEPAD_CONTENT_KEY) = <<this.notepad>>
    /\ StatusText \in {NoticeSaveBlocked, NoticeAutoSaveFailed}

----------------------------------------------------------------------------
(* C19 *)

\* C19: in every reachable state, newNote() on a content of length > 0, also
\* one of white space only, asks for confirmation, and if that is given leaves
\* the content empty, the character count 0 and the status 'new note' with
\* style 'unsaved'; on an empty content it asks nothing and leaves content,
\* status and latch as they are.
C19_NewNote ==
    \A confirmed \in BOOLEAN :
        LET r == newNote(this, confirmed)
        IN /\ Len(this.notepad) > 0
              => /\ r.dialogs = <<confirmed>>
                 /\ confirmed
                    => /\ r.this.notepad = <<>>
                       /\ r.this.charCount = <<"0", "chars">>
                       /\ r.this.saveStatus = [textContent |-> LabelNewNote,
                                               className |-> "unsaved"]
           /\ Len(this.notepad) = 0
              => /\ r.dialogs = <<>>
                 /\ r.this = this

----------------------------------------------------------------------------
(* C20 *)

\* the note a page load over the present store shows if its content read returns
RestoredContent ==
    IF NOTEPAD_CONTENT_KEY \in DOMAIN localStorage
    THEN localStorage[NOTEPAD_CONTENT_KEY]
    ELSE <<>>

\* while the note is blank no tick changes the store, and a page load whose
\* content read returns shows the stored content
StoredNoteKept ==
    /\ ~NonBlank
       => \A now \in Clock, oContent \in CallOutcomes, oTimestamp \in CallOutcomes :
            timerCallback(this, localStorage, now, oContent, oTimestamp).ls
              = localStorage
    /\ \A pageTheme \in PageThemes, oTheme \in CallOutcomes,
          oTimestamp \in CallOutcomes :
          constructor(localStorage, pageTheme, oTheme, Returns, oTimestamp).this.notepad
            = RestoredContent

\* C20: the values stored under the content key and the timestamp key change
\* only in a step of save() or in a timer tick on a non-blank note: no content
\* edit, newNote, clear, file pick, cancel or completion, toggleTheme or page
\* load writes, removes or alters them.  So once the note is blank (after a
\* confirmed clear or newNote, or after the text was deleted by hand) the
\* stored content and timestamp stay under any number of ticks, and a page
\* load whose content read returns restores the stored content.
C20_StoredNoteFrame ==
    /\ []StoredNoteKept
    /\ [][(\/ Stored(NOTEPAD_CONTENT_KEY)' # Stored(NOTEPAD_CONTENT_KEY)
           \/ Stored(NOTEPAD_TIMESTAMP_KEY)' # Stored(NOTEPAD_TIMESTAMP_KEY))
          => (ClickSave \/ (NonBlank /\ TimerTick))]_vars

\* after a confirmed clear of a note whose text is stored: the editor is
\* empty, the store still holds the text and its timestamp
C20_Witness ==
    /\ StatusText = LabelCleared
    /\ this.notepad = <<>>
    /\ StoredContentNonEmpty
    /\ StoredTimestampNonEmpty
    /\ RestoredContent # this.notepad

====
